---- MODULE Spec2Model ----
(***************************************************************************)
(* Model of amethyst_input/src/util.rs: the event classifiers (get_key,    *)
(* is_key_down, is_key_up, is_close_requested, get_mouse_button,           *)
(* is_mouse_button_down) and the named-input resolvers                     *)
(* (get_input_axis_simple, get_action_simple).                             *)
(*                                                                         *)
(* The functions are pure; they are operators here.  The state machine     *)
(* around them is their caller: an event loop that hands over one winit    *)
(* event at a time, an InputHandler whose axis and action values are       *)
(* updated from outside, and calls of the eight functions whose arguments  *)
(* and results are recorded.                                               *)
(*                                                                         *)
(* Option<T> is a sequence: <<>> is None and <<v>> is Some(v).  A tuple    *)
(* (a, b) is <<a, b>>.  An f32 axis value is an integer number of units;   *)
(* the handler may hold values outside [-1, 1].                            *)
(***************************************************************************)
EXTENDS Integers, Sequences, FiniteSets

\* ---------------------------------------------------------------- bounds
\* number of VirtualKeyCode values in play
NumKeys == 2
\* number of MouseButton values in play
NumButtons == 2
\* largest magnitude of an axis value held by the InputHandler
MaxAxis == 2

\* ------------------------------------------------------------ vocabulary
None == <<>>
Some(v) == <<v>>

KeyNames == <<"Space", "Enter", "Escape", "A", "W">>
VirtualKeyCode == {KeyNames[i] : i \in 1..NumKeys}

ButtonNames == <<"Left", "Right", "Middle", "Other1", "Other2">>
MouseButton == {ButtonNames[i] : i \in 1..NumButtons}

ElementState == {"Pressed", "Released"}

\* fields of an event that no function of util.rs reads
WindowId == {"w1", "w2"}
DeviceId == {"d1", "d2"}
ScanCode == {"sc57", "sc28"}
ModifiersState == {"none", "shift"}

\* winit::event::KeyboardInput
KeyboardInput ==
    [scancode : ScanCode, state : ElementState,
     virtual_keycode : {None} \cup {Some(k) : k \in VirtualKeyCode},
     modifiers : ModifiersState]

\* winit::event::WindowEvent, the variants that matter and one that does not
WindowEvent ==
    [tag : {"KeyboardInput"}, device_id : DeviceId, input : KeyboardInput]
    \cup [tag : {"MouseInput"}, device_id : DeviceId, state : ElementState,
          button : MouseButton, modifiers : ModifiersState]
    \cup [tag : {"CloseRequested"}]
    \cup [tag : {"Focused"}, focused : BOOLEAN]

\* winit::event::DeviceEvent: raw device input that is not a window event
DeviceEvent ==
    [tag : {"Key"}, input : KeyboardInput]
    \cup [tag : {"Button"}, button : MouseButton, state : ElementState]

\* winit::event::Event<'_, ()>
Event ==
    [tag : {"WindowEvent"}, window_id : WindowId, event : WindowEvent]
    \cup [tag : {"DeviceEvent"}, device_id : DeviceId, event : DeviceEvent]
    \cup [tag : {"Suspended"}]

\* Option<Cow<'static, str>>: the names a caller may have configured
AxisNames == {"Throttle"}
ActionNames == {"Fire"}
InputName == AxisNames \cup ActionNames
OptName == {None} \cup {Some(n) : n \in InputName}

AxisValue == (0 - MaxAxis)..MaxAxis

\* InputHandler, as far as util.rs can observe it: the axes and the actions
\* that are bound, with their current values.  A name that is not bound is
\* not in the domain.
PartialFn(D, R) == UNION {[d -> R] : d \in SUBSET D}
InputHandler == [axes : PartialFn(AxisNames, AxisValue),
                 actions : PartialFn(ActionNames, BOOLEAN)]

\* InputHandler::axis_value(&self, id) -> Option<f32>
axis_value(inp, n) ==
    IF n \in DOMAIN inp.axes THEN Some(inp.axes[n]) ELSE None

\* InputHandler::action_is_down(&self, id) -> Option<bool>
action_is_down(inp, n) ==
    IF n \in DOMAIN inp.actions THEN Some(inp.actions[n]) ELSE None

\* ------------------------------------------------------ Option combinators
\* Option::unwrap_or
unwrap_or(o, d) == IF o = None THEN d ELSE o[1]

\* ------------------------------------------------------------------ state
VARIABLES
    event,   \* the event the event loop has handed to the application
    input,   \* the InputHandler the application holds
    call,    \* the call made on the current event and handler, if any
    hist     \* history: the latest call ever made, with the inputs it saw

vars == <<event, input, call, hist>>

NoCall == [op |-> "none", arg |-> <<>>, ret |-> FALSE]
NoHist == [op |-> "none", arg |-> <<>>, seen |-> <<>>, ret |-> FALSE,
           again |-> FALSE]

\* ------------------------------------------------------------- classifiers
\* get_key as it would be if the pattern also fixed the modifiers
get_key_unmodified(e) ==
    IF /\ e.tag = "WindowEvent"
       /\ e.event.tag = "KeyboardInput"
       /\ e.event.input.virtual_keycode # None
       /\ e.event.input.modifiers = "none"
    THEN Some(<<e.event.input.virtual_keycode[1], e.event.input.state>>)
    ELSE None

\* get_key as it would be if it took a KeyboardInput from any event carrying one
get_key_any_source(e) ==
    IF /\ e.tag \in {"WindowEvent", "DeviceEvent"}
       /\ e.event.tag \in {"KeyboardInput", "Key"}
       /\ e.event.input.virtual_keycode # None
    THEN Some(<<e.event.input.virtual_keycode[1], e.event.input.state>>)
    ELSE None

\* get_key: the match of lines 11-26
get_key(e) ==
    IF /\ e.tag = "WindowEvent"
       /\ e.event.tag = "KeyboardInput"
       /\ e.event.input.virtual_keycode # None
    THEN Some(<<e.event.input.virtual_keycode[1], e.event.input.state>>)
    ELSE None

\* is_key_down as it would be if it fired once per press
is_key_down_edge(e, key_code) ==
    LET r == get_key(e) IN
    IF r # None
    THEN /\ r[1][1] = key_code /\ r[1][2] = "Pressed"
         /\ ~(call.op = "is_key_down" /\ call.ret)
    ELSE FALSE

\* is_key_down as it would be without the comparison of the state
is_key_down_any_state(e, key_code) ==
    LET r == get_key(e) IN
    IF r # None
    THEN r[1][1] = key_code
    ELSE FALSE

is_key_down(e, key_code) ==
    LET r == get_key(e) IN
    IF r # None
    THEN r[1][1] = key_code /\ r[1][2] = "Pressed"
    ELSE FALSE

\* is_key_up as it would be if copied from is_key_down without changing the state
is_key_up_pressed(e, key_code) ==
    LET r == get_key(e) IN
    IF r # None
    THEN r[1][1] = key_code /\ r[1][2] = "Pressed"
    ELSE FALSE

is_key_up(e, key_code) ==
    LET r == get_key(e) IN
    IF r # None
    THEN r[1][1] = key_code /\ r[1][2] = "Released"
    ELSE FALSE

\* is_close_requested as it would be if it matched every window event
is_close_requested_any_window(e) ==
    e.tag = "WindowEvent"

is_close_requested(e) ==
    e.tag = "WindowEvent" /\ e.event.tag = "CloseRequested"

\* get_mouse_button as it would be if it also took raw device buttons
get_mouse_button_any_source(e) ==
    IF \/ e.tag = "WindowEvent" /\ e.event.tag = "MouseInput"
       \/ e.tag = "DeviceEvent" /\ e.event.tag = "Button"
    THEN Some(<<e.event.button, e.event.state>>)
    ELSE None

get_mouse_button(e) ==
    IF e.tag = "WindowEvent" /\ e.event.tag = "MouseInput"
    THEN Some(<<e.event.button, e.event.state>>)
    ELSE None

\* is_mouse_button_down as it would be without the comparison of the button
is_mouse_button_down_any_button(e, button) ==
    LET r == get_mouse_button(e) IN
    IF r # None
    THEN r[1][2] = "Pressed"
    ELSE FALSE

is_mouse_button_down(e, button) ==
    LET r == get_mouse_button(e) IN
    IF r # None
    THEN r[1][1] = button /\ r[1][2] = "Pressed"
    ELSE FALSE

\* --------------------------------------------------------------- resolvers
\* get_input_axis_simple as it would be if it clamped the value to [-1, 1]
get_input_axis_simple_clamped(name, inp) ==
    LET looked == IF name = None THEN None ELSE axis_value(inp, name[1])
        v == unwrap_or(looked, 0)
    IN IF v > 1 THEN 1 ELSE IF v < 0 - 1 THEN 0 - 1 ELSE v

get_input_axis_simple(name, inp) ==
    \* name.as_ref().and_then(|n| input.axis_value(n))
    LET looked == IF name = None THEN None ELSE axis_value(inp, name[1]) IN
    unwrap_or(looked, 0)

\* get_action_simple as it would be with the wrong default
get_action_simple_default_true(name, inp) ==
    \* name.as_ref().and_then(|n| input.action_is_down(n))
    LET looked == IF name = None THEN None ELSE action_is_down(inp, name[1]) IN
    unwrap_or(looked, TRUE)

get_action_simple(name, inp) ==
    \* name.as_ref().and_then(|n| input.action_is_down(n))
    LET looked == IF name = None THEN None ELSE action_is_down(inp, name[1]) IN
    unwrap_or(looked, FALSE)

\* ----------------------------------------------------------------- caller
\* The window events whose unread fields all have their first value, and the
\* events without fields; the history specification delivers only these.
IsCore(e) ==
    /\ e.tag # "DeviceEvent"
    /\ e.tag = "WindowEvent" =>
         /\ e.window_id = "w1"
         /\ e.event.tag \in {"KeyboardInput", "MouseInput"} =>
              e.event.device_id = "d1"
         /\ e.event.tag = "KeyboardInput" =>
              e.event.input.scancode = "sc57" /\ e.event.input.modifiers = "none"
         /\ e.event.tag = "MouseInput" => e.event.modifiers = "none"
CoreEvent == {e \in Event : IsCore(e)}

\* A new InputHandler has no bindings.
NewInputHandler == [axes |-> <<>>, actions |-> <<>>]

Init ==
    /\ event \in Event
    /\ input = NewInputHandler
    /\ call = NoCall
    /\ hist = NoHist

InitHist ==
    /\ event \in CoreEvent
    /\ input = NewInputHandler
    /\ call = NoCall
    /\ hist = NoHist

\* The event loop hands over the next event; nothing was called on it yet.
Deliver(evs) ==
    \E e \in evs :
        /\ event' = e
        /\ call' = NoCall
        /\ UNCHANGED <<input, hist>>

NextEvent == Deliver(Event)
NextCoreEvent == Deliver(CoreEvent)

\* The owner of the InputHandler rebinds it or updates its values.
StoreUpdate ==
    \E h \in InputHandler :
        /\ h # input
        /\ input' = h
        /\ call' = NoCall
        /\ UNCHANGED <<event, hist>>

\* A call returns: its result is recorded; with track, the history also keeps
\* the inputs it saw and whether they are those of the call before it.
Return(op, arg, seen, ret, track) ==
    /\ call' = [op |-> op, arg |-> arg, ret |-> ret]
    /\ hist' = IF track
               THEN [op |-> op, arg |-> arg, seen |-> seen, ret |-> ret,
                     again |-> hist.op = op /\ hist.arg = arg /\ hist.seen = seen]
               ELSE hist
    /\ UNCHANGED <<event, input>>

GetKey(track) ==
    Return("get_key", <<>>, <<event>>, get_key(event), track)

IsKeyDown(track) ==
    \E k \in VirtualKeyCode :
        Return("is_key_down", <<k>>, <<event>>, is_key_down(event, k), track)

IsKeyUp(track) ==
    \E k \in VirtualKeyCode :
        Return("is_key_up", <<k>>, <<event>>, is_key_up(event, k), track)

IsCloseRequested(track) ==
    Return("is_close_requested", <<>>, <<event>>, is_close_requested(event), track)

GetMouseButton(track) ==
    Return("get_mouse_button", <<>>, <<event>>, get_mouse_button(event), track)

IsMouseButtonDown(track) ==
    \E b \in MouseButton :
        Return("is_mouse_button_down", <<b>>, <<event>>,
               is_mouse_button_down(event, b), track)

GetInputAxisSimple(track) ==
    \E name \in OptName :
        Return("get_input_axis_simple", <<name>>, <<input>>,
               get_input_axis_simple(name, input), track)

GetActionSimple(track) ==
    \E name \in OptName :
        Return("get_action_simple", <<name>>, <<input>>,
               get_action_simple(name, input), track)

Calls(track) ==
    \/ GetKey(track)
    \/ IsKeyDown(track)
    \/ IsKeyUp(track)
    \/ IsCloseRequested(track)
    \/ GetMouseButton(track)
    \/ IsMouseButtonDown(track)
    \/ GetInputAxisSimple(track)
    \/ GetActionSimple(track)

Next == NextEvent \/ StoreUpdate \/ Calls(FALSE)
Spec == Init /\ [][Next]_vars

NextHist == NextCoreEvent \/ StoreUpdate \/ Calls(TRUE)
SpecHist == InitHist /\ [][NextHist]_vars

\* ------------------------------------------------------------------ claims

\* C1: a window keyboard-input event whose virtual key code is Some(K) and
\* whose state is T makes get_key return exactly Some((K, T)), whatever its
\* window id, device id, scancode and modifiers are.
C1_GetKeyReturnsKeyAndState ==
    ( /\ call.op = "get_key"
      /\ event.tag = "WindowEvent"
      /\ event.event.tag = "KeyboardInput"
      /\ event.event.input.virtual_keycode # None )
    => call.ret = Some(<<event.event.input.virtual_keycode[1],
                         event.event.input.state>>)

C1_Witness ==
    /\ call.op = "get_key"
    /\ event.tag = "WindowEvent"
    /\ event.window_id = "w2"
    /\ event.event.tag = "KeyboardInput"
    /\ event.event.device_id = "d2"
    /\ event.event.input = [scancode |-> "sc28", state |-> "Released",
                            virtual_keycode |-> Some("Enter"),
                            modifiers |-> "shift"]
    /\ call.ret = Some(<<"Enter", "Released">>)

\* C2: get_key returns None for every event that is not a window
\* keyboard-input event and for every keyboard-input event whose virtual key
\* code is None, whatever its state; it has a result for every event.
C2_GetKeyNoneOtherwise ==
    ( /\ call.op = "get_key"
      /\ ~( /\ event.tag = "WindowEvent"
            /\ event.event.tag = "KeyboardInput"
            /\ event.event.input.virtual_keycode # None ) )
    => call.ret = None

C2_Witness ==
    /\ call.op = "get_key"
    /\ event.tag = "WindowEvent"
    /\ event.event.tag = "KeyboardInput"
    /\ event.event.input.virtual_keycode = None
    /\ event.event.input.state = "Pressed"
    /\ call.ret = None

\* C3: is_key_down(e, k) is true exactly when get_key(e) = Some((k, Pressed))
\* and is_key_up(e, k) exactly when get_key(e) = Some((k, Released)).
C3_KeyDownUpAgreeWithGetKey ==
    /\ call.op = "is_key_down" =>
         (call.ret <=> get_key(event) = Some(<<call.arg[1], "Pressed">>))
    /\ call.op = "is_key_up" =>
         (call.ret <=> get_key(event) = Some(<<call.arg[1], "Released">>))

C3_Witness ==
    /\ call.op = "is_key_up"
    /\ call.arg = <<"Space">>
    /\ get_key(event) = Some(<<"Space", "Pressed">>)
    /\ call.ret = FALSE

\* C4: is_close_requested(e) is true exactly when e is a window event whose
\* inner event is CloseRequested.
C4_CloseRequestedExact ==
    call.op = "is_close_requested" =>
        (call.ret <=> (event.tag = "WindowEvent"
                       /\ event.event.tag = "CloseRequested"))

C4_Witness ==
    /\ call.op = "is_close_requested"
    /\ event = [tag |-> "WindowEvent", window_id |-> "w2",
                event |-> [tag |-> "CloseRequested"]]
    /\ call.ret = TRUE

\* C5: get_mouse_button returns Some((B, T)) for a window mouse-input event
\* with button B and state T, and None for every other event.
C5_GetMouseButton ==
    call.op = "get_mouse_button" =>
        call.ret = IF event.tag = "WindowEvent" /\ event.event.tag = "MouseInput"
                   THEN Some(<<event.event.button, event.event.state>>)
                   ELSE None

C5_Witness ==
    /\ call.op = "get_mouse_button"
    /\ event.tag = "WindowEvent"
    /\ event.event.tag = "MouseInput"
    /\ event.event.button = "Right"
    /\ event.event.state = "Released"
    /\ call.ret = Some(<<"Right", "Released">>)

\* C6: is_mouse_button_down(e, b) is true exactly when get_mouse_button(e)
\* is Some((b, Pressed)).
C6_MouseButtonDownAgrees ==
    call.op = "is_mouse_button_down" =>
        (call.ret <=> get_mouse_button(event) = Some(<<call.arg[1], "Pressed">>))

C6_Witness ==
    /\ call.op = "is_mouse_button_down"
    /\ call.arg = <<"Left">>
    /\ get_mouse_button(event) = Some(<<"Right", "Pressed">>)
    /\ call.ret = FALSE

\* C7: get_input_axis_simple returns 0.0 for the name None, 0.0 for a name
\* the handler has no axis for, and otherwise the handler's value unchanged.
C7_AxisPassThrough ==
    call.op = "get_input_axis_simple" =>
        LET name == call.arg[1] IN
        call.ret = IF name = None THEN 0
                   ELSE IF name[1] \notin DOMAIN input.axes THEN 0
                   ELSE input.axes[name[1]]

C7_Witness ==
    /\ call.op = "get_input_axis_simple"
    /\ call.arg = <<Some("Throttle")>>
    /\ "Throttle" \in DOMAIN input.axes
    /\ input.axes["Throttle"] = MaxAxis
    /\ call.ret = MaxAxis

\* C8: get_action_simple returns false for the name None, false for a name
\* the handler has no action for, and otherwise the handler's boolean.
C8_ActionPassThrough ==
    call.op = "get_action_simple" =>
        LET name == call.arg[1] IN
        call.ret = IF name = None THEN FALSE
                   ELSE IF name[1] \notin DOMAIN input.actions THEN FALSE
                   ELSE input.actions[name[1]]

C8_Witness ==
    /\ call.op = "get_action_simple"
    /\ call.arg = <<Some("Fire")>>
    /\ "Fire" \in DOMAIN input.actions
    /\ input.actions["Fire"] = TRUE
    /\ call.ret = TRUE

C10_MutuallyExclusive ==
    /\ Cardinality({c \in {"key", "button", "close"} :
                      \/ c = "key" /\ get_key(event) # None
                      \/ c = "button" /\ get_mouse_button(event) # None
                      \/ c = "close" /\ is_close_requested(event)}) <= 1
    /\ \A k \in VirtualKeyCode :
         ~(is_key_down(event, k) /\ is_key_up(event, k))

C10_Witness ==
    /\ call.op = "is_close_requested"
    /\ call.ret = TRUE
    /\ get_key(event) = None
    /\ get_mouse_button(event) = None

====
